---- MODULE Spec2Model ----
(***************************************************************************)
(* Model of core/rawdb/bor_receipt.go: the bor receipt accessors over the  *)
(* mutable key-value store and the ancient (freezer) store, and the bor    *)
(* transaction lookup index.                                               *)
(*                                                                         *)
(* Byte slices are sequences of integers 0..255; a nil slice and an empty  *)
(* slice are both <<>> (the code only ever tests len(data)).               *)
(***************************************************************************)
EXTENDS Integers, Sequences, FiniteSets, TLC

\* ---------------------------------------------------------------- bounds
\* Block numbers of the model: 0 and MaxBlock numbers that need two bytes.
MaxBlock == 1
\* Non-zero block hashes of the model.
MaxHash == 2
\* Distinct receipts that are written.
MaxReceipt == 2
\* Store-changing operations (writes, deletes, migrations) in one behaviour.
MaxOps == 2
\* Length of the byte strings of no particular shape that the store may hold.
MaxLen == 2
\* Records in a stored sequence of records.
MaxSeq == 2

\* common.HashLength
HashLength == 32

Numbers == {0} \cup {257 * k : k \in 1..MaxBlock}

Zeros(n) == [i \in 1..n |-> 0]

\* A hash whose last byte is b.
HashOf(b) == Zeros(HashLength - 1) \o <<b>>

\* common.Hash{}
ZeroHash == Zeros(HashLength)

\* Hashes of blocks that are written and frozen.
BlockHashes == {HashOf(b) : b \in 1..MaxHash}

\* Hashes a reader may ask for: callers pass the zero hash too.
QueryHashes == BlockHashes \cup {ZeroHash}

Receipts == 1..MaxReceipt

\* ------------------------------------------------------------ conversions
\* common.BytesToHash: crop from the left when too long, left-pad with zeros.
BytesToHash(b) ==
    LET n == Len(b)
        c == IF n > HashLength THEN SubSeq(b, n - HashLength + 1, n) ELSE b
    IN  Zeros(HashLength - Len(c)) \o c

RECURSIVE BigEndian(_, _)
\* The w low bytes of n, most significant first.
BigEndian(n, w) ==
    IF w = 0 THEN <<>> ELSE Append(BigEndian(n \div 256, w - 1), n % 256)

\* encodeBlockNumber: the number as 8 big-endian bytes.
encodeBlockNumber(number) == BigEndian(number, 8)

RECURSIVE BigIntBytes(_)
\* big.NewInt(0).SetUint64(n).Bytes(): the minimal big-endian bytes, none for 0.
BigIntBytes(n) ==
    IF n = 0 THEN <<>> ELSE Append(BigIntBytes(n \div 256), n % 256)

RECURSIVE BigIntSetBytes(_)
\* new(big.Int).SetBytes(data).Uint64(): the big-endian value of data.
BigIntSetBytes(data) ==
    IF Len(data) = 0 THEN 0
    ELSE 256 * BigIntSetBytes(SubSeq(data, 1, Len(data) - 1)) + data[Len(data)]

\* rlp.EncodeToBytes of a receipt for storage: a list holding the receipt's
\* one field (list header 0xC1, then the field as a single byte).
EncodeToBytes(r) == <<193, r>>

\* ----------------------------------------------------------- record codec
\* The receipt of the model has one field, an unsigned integer.  On the wire
\* an item is a byte below 0x80 (a string of that one byte), 0x80 + n and n
\* bytes (a string), or 0xC0 + n and n bytes of items (a list); the long forms
\* for more than 55 bytes cannot be satisfied by the short inputs of the
\* model and are errors.

BadItem == [ok |-> FALSE, list |-> FALSE, body |-> <<>>, rest |-> <<>>]

\* The first item of b, and the bytes after it.
RlpSplit(b) ==
    IF Len(b) = 0 THEN BadItem
    ELSE LET t == b[1]
             n == IF t < 192 THEN t - 128 ELSE t - 192
         IN  IF t < 128
             THEN [ok |-> TRUE, list |-> FALSE, body |-> <<t>>, rest |-> Tail(b)]
             ELSE IF (t >= 184 /\ t < 192) \/ t >= 248 THEN BadItem
             ELSE IF Len(b) < 1 + n THEN BadItem
             ELSE IF t < 192 /\ n = 1 /\ b[2] < 128 THEN BadItem
             ELSE [ok |-> TRUE, list |-> t >= 192, body |-> SubSeq(b, 2, 1 + n),
                   rest |-> SubSeq(b, 2 + n, Len(b))]

\* A string item as an unsigned 64-bit integer: at most 8 bytes, no leading
\* zero byte.
RlpUint(item) ==
    IF ~item.ok \/ item.list \/ Len(item.body) > 8 THEN [ok |-> FALSE, val |-> 0]
    ELSE IF Len(item.body) > 0 /\ item.body[1] = 0 THEN [ok |-> FALSE, val |-> 0]
    ELSE [ok |-> TRUE, val |-> BigIntSetBytes(item.body)]

\* One item as a receipt: a list of exactly the receipt's one field.
DecodeReceiptItem(item) ==
    IF ~item.ok \/ ~item.list THEN [ok |-> FALSE, rec |-> 0]
    ELSE LET f == RlpSplit(item.body)
             v == RlpUint(f)
         IN  IF v.ok /\ Len(f.rest) = 0
             THEN [ok |-> TRUE, rec |-> v.val]
             ELSE [ok |-> FALSE, rec |-> 0]

\* rlp.DecodeBytes(data, &storageReceipt): the whole of data is one receipt.
DecodeReceipt(data) ==
    LET item == RlpSplit(data)
    IN  IF item.ok /\ Len(item.rest) > 0 THEN [ok |-> FALSE, rec |-> 0]
        ELSE DecodeReceiptItem(item)

RECURSIVE DecodeReceiptItems(_)
\* The items of a list's body, each a receipt.
DecodeReceiptItems(body) ==
    IF Len(body) = 0 THEN [ok |-> TRUE, recs |-> <<>>]
    ELSE LET item == RlpSplit(body)
             one == DecodeReceiptItem(item)
             more == DecodeReceiptItems(item.rest)
         IN  IF one.ok /\ more.ok
             THEN [ok |-> TRUE, recs |-> <<one.rec>> \o more.recs]
             ELSE [ok |-> FALSE, recs |-> <<>>]

\* rlp.DecodeBytes(data, &storageReceipts): the whole of data is one list of
\* receipts.
DecodeReceipts(data) ==
    LET item == RlpSplit(data)
    IN  IF ~item.ok \/ ~item.list \/ Len(item.rest) > 0
        THEN [ok |-> FALSE, recs |-> <<>>]
        ELSE DecodeReceiptItems(item.body)

RECURSIVE EncodeReceipts(_)
\* The receipts of a sequence, encoded one after the other.
EncodeReceipts(recs) ==
    IF Len(recs) = 0 THEN <<>>
    ELSE EncodeToBytes(Head(recs)) \o EncodeReceipts(Tail(recs))

\* The earlier format on disk: the receipts wrapped in a list.
EncodeSequence(recs) ==
    <<192 + Len(EncodeReceipts(recs))>> \o EncodeReceipts(recs)

\* Bytes the stores may hold at a receipt key: sequences of receipts in the
\* earlier format, and short strings of no particular shape.
Alphabet == {1, 128, 192, 193, 194}
StoredBytes ==
    UNION {{EncodeSequence(q) : q \in [1..n -> Receipts]} : n \in 0..MaxSeq}
    \cup UNION {[1..n -> Alphabet] : n \in 1..MaxLen}

\* ------------------------------------------------------------------ keys
\* "matic-bor-receipt-"
borReceiptPrefix ==
    <<109, 97, 116, 105, 99, 45, 98, 111, 114, 45, 114, 101, 99, 101, 105, 112, 116, 45>>

\* "matic-bor-tx-lookup-"
borTxLookupPrefix ==
    <<109, 97, 116, 105, 99, 45, 98, 111, 114, 45, 116, 120, 45, 108, 111, 111, 107, 117, 112, 45>>

\* types.BorReceiptKey: prefix + number (8 bytes big endian) + hash
borReceiptKey(number, hash) ==
    borReceiptPrefix \o encodeBlockNumber(number) \o hash

RECURSIVE Absorb(_, _, _)
\* The sum of the bytes of data at the places i, i + HashLength, ..., the
\* k-th such place weighted k.
Absorb(data, i, k) ==
    IF i > Len(data) THEN 0
    ELSE k * data[i] + Absorb(data, i + HashLength, k + 1)

\* types.GetDerivedBorTxHash: the digest of the receipt key.  The digest is
\* a deterministic function of the key's bytes that is free of collisions
\* on the keys of the model, and whose value is no block hash of the model.
GetDerivedBorTxHash(key) ==
    [i \in 1..HashLength |-> (128 + Absorb(key, i, 1)) % 256]

\* borTxLookupKey = borTxLookupPrefix + bor tx hash
borTxLookupKey(hash) == borTxLookupPrefix \o hash

\* The derived hash of a block's bor transaction.
DerivedHash(hash, number) == GetDerivedBorTxHash(borReceiptKey(number, hash))

Blocks == BlockHashes \X Numbers

TxHashes == {DerivedHash(b[1], b[2]) : b \in Blocks}

\* ---------------------------------------------------------------- stores
\* Freezer tables.
freezerBorReceiptTable == "matic-bor-receipts"
freezerHashTable == "hashes"

\* ethdb.KeyValueReader.Get: a missing key, or a failing store, gives an error
\* and no data.
Get(store, key, fault) ==
    IF fault \/ key \notin DOMAIN store
    THEN [data |-> <<>>, err |-> TRUE]
    ELSE [data |-> store[key], err |-> FALSE]

\* ethdb.KeyValueReader.Has
Has(store, key, fault) ==
    IF fault THEN [has |-> FALSE, err |-> TRUE]
    ELSE [has |-> key \in DOMAIN store, err |-> FALSE]

\* ethdb.KeyValueWriter.Put
Put(store, key, value) ==
    [k \in DOMAIN store \cup {key} |-> IF k = key THEN value ELSE store[k]]

\* ethdb.KeyValueWriter.Delete: deleting a missing key is not an error.
Delete(store, key) ==
    [k \in DOMAIN store \ {key} |-> store[k]]

\* ethdb.AncientReader.Ancient: an item that was not appended, or a failing
\* read, gives an error and no data.
Ancient(frz, kind, number, fault) ==
    IF fault \/ <<kind, number>> \notin DOMAIN frz
    THEN [data |-> <<>>, err |-> TRUE]
    ELSE [data |-> frz[<<kind, number>>], err |-> FALSE]

\* A nil pointer (*uint64, *types.Receipt, *types.Transaction).
Nil == -1

\* The block data beside the receipts: a block's body and its receipts, and
\* the canonical hash of a number.  "b" + number + hash, "r" + number + hash,
\* "h" + number + "n".
blockBodyKey(number, hash) == <<98>> \o encodeBlockNumber(number) \o hash
blockReceiptsKey(number, hash) == <<114>> \o encodeBlockNumber(number) \o hash
headerHashKey(number) == <<104>> \o encodeBlockNumber(number) \o <<110>>

\* A body with one transaction, and the receipts of such a block.
BodyBytes == <<1>>
ReceiptsBytes == <<1>>

\* ReadBody: the body's number of transactions, nil when the store has no
\* body for the block.
ReadBody(store, hash, number) ==
    LET data == Get(store, blockBodyKey(number, hash), FALSE).data
    IN  IF Len(data) = 0 THEN Nil ELSE data[1]

\* ReadRawReceipts: the number of receipts of the block, nil when the store
\* has none for the block.
ReadRawReceipts(store, hash, number) ==
    LET data == Get(store, blockReceiptsKey(number, hash), FALSE).data
    IN  IF Len(data) = 0 THEN Nil ELSE data[1]

\* ReadCanonicalHash: the ancient store's hash of the number, the mutable
\* store's when the ancient store has none; the zero hash when neither has.
ReadCanonicalHash(store, frz, number) ==
    LET a == Ancient(frz, freezerHashTable, number, FALSE).data
    IN  BytesToHash(IF Len(a) > 0 THEN a ELSE Get(store, headerHashKey(number), FALSE).data)

\* ----------------------------------------------------------------- state
VARIABLES
    kv,       \* the mutable key-value store: key -> value, for the keys present
    anc,      \* the ancient store: <<table, number>> -> item, for the items appended
    rd,       \* the ReadBorReceiptRLP call in flight, with its position
    mg,       \* the background migration (freezer) of one block, with its position
    res,      \* what the step just taken returned to its caller, if anything
    written,  \* per block: the last WriteBorReceipt / DeleteBorReceipt made for it
    indexed,  \* per block: the last lookup-entry write / delete made for it
              \* ("noop": a delete that found no entry)
    ops,      \* number of store-changing operations started
    fatal     \* log.Crit was called: the process has exited

vars == <<kv, anc, rd, mg, res, written, indexed, ops, fatal>>

IdleReader ==
    [pc |-> "idle", hash |-> ZeroHash, number |-> 0, data |-> <<>>,
     snap |-> <<>>, wr |-> FALSE, mgr |-> FALSE, mig |-> FALSE,
     err |-> FALSE]

IdleMigration ==
    [pc |-> "idle", hash |-> ZeroHash, number |-> 0, data |-> <<>>,
     receipt |-> FALSE, canon |-> FALSE]

NoResult ==
    [op |-> "none", hash |-> ZeroHash, number |-> 0, ret |-> <<>>, src |-> "none",
     snap |-> <<>>, wr |-> FALSE, mgr |-> FALSE, mig |-> FALSE,
     err |-> FALSE,
     data |-> <<>>, log |-> "none", base |-> Nil, calls |-> <<0, 0, 0>>,
     derived |-> <<>>, at |-> <<>>]

\* A store with nothing in it.
EmptyStore == [k \in {} |-> <<>>]

\* An ancient store that holds one block frozen before the program started.
FrozenStore ==
    [k \in {<<freezerBorReceiptTable, 257>>, <<freezerHashTable, 257>>} |->
        IF k[1] = freezerHashTable THEN HashOf(1) ELSE EncodeToBytes(1)]

Init ==
    /\ kv = EmptyStore
    /\ anc \in {EmptyStore, FrozenStore}
    /\ rd = IdleReader
    /\ mg = IdleMigration
    /\ res = NoResult
    /\ written = [b \in Blocks |-> [st |-> "none", bytes |-> <<>>]]
    /\ indexed = [b \in Blocks |-> "none"]
    /\ ops = 0
    /\ fatal = FALSE

\* The reader in flight, told that the record key of (hash, number) was
\* written or deleted by a caller.
NoteWrite(hash, number) ==
    IF rd.pc # "idle" /\ rd.hash = hash /\ rd.number = number
    THEN [rd EXCEPT !.wr = TRUE]
    ELSE rd

\* The reader in flight, told that the migration made a step on its number.
NoteMigration ==
    IF rd.pc # "idle" /\ rd.number = mg.number
    THEN [rd EXCEPT !.mgr = TRUE,
                    !.mig = @ \/ (rd.hash = mg.hash /\ rd.snap = mg.data)]
    ELSE rd

\* ------------------------------------------------------- Writer / Deleter
\* Mutant: the receipt is stored under a key that leaves the hash out.
WriteBorReceiptPut_NoHash(store, hash, number, borReceipt) ==
    Put(store, borReceiptKey(number, ZeroHash), EncodeToBytes(borReceipt))

\* Mutant: writing the receipt writes the lookup entry too.
WriteBorReceiptPut_WithLookup(store, hash, number, borReceipt) ==
    Put(Put(store, borReceiptKey(number, hash), EncodeToBytes(borReceipt)),
        borTxLookupKey(GetDerivedBorTxHash(borReceiptKey(number, hash))),
        BigIntBytes(number))

\* WriteBorReceipt's store: the encoded receipt at the receipt key.
WriteBorReceiptPut(store, hash, number, borReceipt) ==
    Put(store, borReceiptKey(number, hash), EncodeToBytes(borReceipt))

\* Mutant: a failure to encode or to store is logged as an error and the
\* call returns.
WriteBorReceipt_IgnoreError(hash, number, borReceipt) ==
    /\ ~fatal /\ ops < MaxOps
    /\ \E encErr \in BOOLEAN, putErr \in BOOLEAN :
        /\ kv' = IF encErr \/ putErr THEN kv
                 ELSE WriteBorReceiptPut(kv, hash, number, borReceipt)
        /\ written' = [written EXCEPT ![<<hash, number>>] =
                         [st |-> "written", bytes |-> EncodeToBytes(borReceipt)]]
        /\ rd' = NoteWrite(hash, number)
        /\ fatal' = FALSE
    /\ ops' = ops + 1
    /\ res' = NoResult
    /\ UNCHANGED <<anc, mg, indexed>>

\* WriteBorReceipt: log.Crit when the receipt does not encode or the store
\* does not take it.
WriteBorReceipt(hash, number, borReceipt) ==
    /\ ~fatal /\ ops < MaxOps
    /\ \E encErr \in BOOLEAN, putErr \in BOOLEAN :
        IF encErr \/ putErr
        THEN /\ fatal' = TRUE
             /\ UNCHANGED <<kv, written, rd>>
        ELSE /\ kv' = WriteBorReceiptPut(kv, hash, number, borReceipt)
             /\ written' = [written EXCEPT ![<<hash, number>>] =
                              [st |-> "written", bytes |-> EncodeToBytes(borReceipt)]]
             /\ rd' = NoteWrite(hash, number)
             /\ fatal' = FALSE
    /\ ops' = ops + 1
    /\ res' = NoResult
    /\ UNCHANGED <<anc, mg, indexed>>

\* Mutant: deleting the receipt deletes the lookup entry too.
DeleteBorReceiptDelete_WithLookup(store, hash, number) ==
    Delete(Delete(store, borReceiptKey(number, hash)),
           borTxLookupKey(GetDerivedBorTxHash(borReceiptKey(number, hash))))

\* Mutant: the receipts of every hash at the number are deleted.
DeleteBorReceiptDelete_AllHashes(store, hash, number) ==
    [k \in DOMAIN store \ {borReceiptKey(number, h) : h \in BlockHashes} |-> store[k]]

\* DeleteBorReceipt's store: the receipt key removed.
DeleteBorReceiptDelete(store, hash, number) ==
    Delete(store, borReceiptKey(number, hash))

DeleteBorReceipt(hash, number) ==
    /\ ~fatal /\ ops < MaxOps
    /\ \E delErr \in BOOLEAN :
        IF delErr
        THEN /\ fatal' = TRUE
             /\ UNCHANGED <<kv, written, rd>>
        ELSE /\ kv' = DeleteBorReceiptDelete(kv, hash, number)
             /\ written' = [written EXCEPT ![<<hash, number>>] =
                              [st |-> "deleted", bytes |-> <<>>]]
             /\ rd' = NoteWrite(hash, number)
             /\ fatal' = FALSE
    /\ ops' = ops + 1
    /\ res' = NoResult
    /\ UNCHANGED <<anc, mg, indexed>>

\* Another user of the mutable store puts an empty value at a receipt key
\* (the store accepts any bytes at any key).
RawPut(hash, number) ==
    /\ ~fatal /\ ops < MaxOps
    /\ kv' = Put(kv, borReceiptKey(number, hash), <<>>)
    /\ written' = [written EXCEPT ![<<hash, number>>] = [st |-> "raw", bytes |-> <<>>]]
    /\ rd' = NoteWrite(hash, number)
    /\ ops' = ops + 1
    /\ res' = NoResult
    /\ UNCHANGED <<anc, mg, indexed, fatal>>

\* The store holds bytes at a receipt key that an earlier version of the
\* program wrote, or that are damaged.
LegacyPut(hash, number, bytes) ==
    /\ ~fatal /\ ops < MaxOps
    /\ kv' = Put(kv, borReceiptKey(number, hash), bytes)
    /\ written' = [written EXCEPT ![<<hash, number>>] = [st |-> "raw", bytes |-> bytes]]
    /\ rd' = NoteWrite(hash, number)
    /\ ops' = ops + 1
    /\ res' = NoResult
    /\ UNCHANGED <<anc, mg, indexed, fatal>>

\* The chain stores the body of a block.
WriteBody(hash, number) ==
    /\ ~fatal /\ ops < MaxOps
    /\ kv' = Put(kv, blockBodyKey(number, hash), BodyBytes)
    /\ ops' = ops + 1
    /\ res' = NoResult
    /\ UNCHANGED <<anc, rd, mg, written, indexed, fatal>>

\* The chain stores the receipts of a block.
WriteReceipts(hash, number) ==
    /\ ~fatal /\ ops < MaxOps
    /\ kv' = Put(kv, blockReceiptsKey(number, hash), ReceiptsBytes)
    /\ ops' = ops + 1
    /\ res' = NoResult
    /\ UNCHANGED <<anc, rd, mg, written, indexed, fatal>>

\* The chain makes a block the canonical block of its number.
WriteCanonicalHash(hash, number) ==
    /\ ~fatal /\ ops < MaxOps
    /\ kv' = Put(kv, headerHashKey(number), hash)
    /\ ops' = ops + 1
    /\ res' = NoResult
    /\ UNCHANGED <<anc, rd, mg, written, indexed, fatal>>

\* --------------------------------------------------------- Reverse index
\* ReadBorTxLookupEntry: nil when the stored value is empty or the read
\* fails, the decoded number otherwise.
ReadBorTxLookupEntry(store, txHash, getErr) ==
    LET data == Get(store, borTxLookupKey(txHash), getErr).data
    IN  IF Len(data) = 0 THEN Nil ELSE BigIntSetBytes(data)

\* Mutant: the derived hash is taken from the number alone.
WriteBorTxLookupEntryPut_NumberOnly(store, hash, number) ==
    Put(store, borTxLookupKey(GetDerivedBorTxHash(borReceiptKey(number, ZeroHash))),
        BigIntBytes(number))

\* WriteBorTxLookupEntry's store: the number at the lookup key of the
\* derived hash.
WriteBorTxLookupEntryPut(store, hash, number) ==
    Put(store, borTxLookupKey(GetDerivedBorTxHash(borReceiptKey(number, hash))),
        BigIntBytes(number))

WriteBorTxLookupEntry(hash, number) ==
    /\ ~fatal /\ ops < MaxOps
    /\ \E putErr \in BOOLEAN :
        IF putErr
        THEN /\ fatal' = TRUE
             /\ UNCHANGED <<kv, indexed>>
        ELSE /\ kv' = WriteBorTxLookupEntryPut(kv, hash, number)
             /\ indexed' = [indexed EXCEPT ![<<hash, number>>] = "put"]
             /\ fatal' = FALSE
    /\ ops' = ops + 1
    /\ res' = NoResult
    /\ UNCHANGED <<anc, rd, mg, written>>

\* DeleteBorTxLookupEntryByTxHash's store: the lookup key removed.
DeleteBorTxLookupEntryByTxHashDelete(store, txHash) ==
    Delete(store, borTxLookupKey(txHash))

\* Mutant: the lookup key is built from the block hash, not the derived hash.
DeleteBorTxLookupEntryDelete_BlockHash(store, hash, number) ==
    Delete(store, borTxLookupKey(hash))

\* DeleteBorTxLookupEntry's store: the lookup key of the derived hash removed.
DeleteBorTxLookupEntryDelete(store, hash, number) ==
    DeleteBorTxLookupEntryByTxHashDelete(
        store, GetDerivedBorTxHash(borReceiptKey(number, hash)))

DeleteBorTxLookupEntry(hash, number) ==
    /\ ~fatal /\ ops < MaxOps
    /\ \E delErr \in BOOLEAN :
        IF delErr
        THEN /\ fatal' = TRUE
             /\ UNCHANGED <<kv, indexed>>
        ELSE /\ kv' = DeleteBorTxLookupEntryDelete(kv, hash, number)
             /\ indexed' = [indexed EXCEPT ![<<hash, number>>] =
                              IF borTxLookupKey(DerivedHash(hash, number)) \in DOMAIN kv
                              THEN "deleted" ELSE "noop"]
             /\ fatal' = FALSE
    /\ ops' = ops + 1
    /\ res' = NoResult
    /\ UNCHANGED <<anc, rd, mg, written>>

DeleteBorTxLookupEntryByTxHash(txHash) ==
    /\ ~fatal /\ ops < MaxOps
    /\ \E delErr \in BOOLEAN :
        IF delErr
        THEN /\ fatal' = TRUE
             /\ UNCHANGED <<kv, indexed>>
        ELSE /\ kv' = DeleteBorTxLookupEntryByTxHashDelete(kv, txHash)
             /\ indexed' = [b \in Blocks |->
                              IF DerivedHash(b[1], b[2]) # txHash THEN indexed[b]
                              ELSE IF borTxLookupKey(txHash) \in DOMAIN kv
                                   THEN "deleted" ELSE "noop"]
             /\ fatal' = FALSE
    /\ ops' = ops + 1
    /\ res' = NoResult
    /\ UNCHANGED <<anc, rd, mg, written>>

\* A caller reads a lookup entry.
IndexGet(txHash) ==
    /\ ~fatal /\ rd.pc = "idle"
    /\ \E getErr \in BOOLEAN :
        res' = [NoResult EXCEPT !.op = "ReadBorTxLookupEntry", !.hash = txHash,
                                !.ret = ReadBorTxLookupEntry(kv, txHash, getErr),
                                !.err = getErr]
    /\ UNCHANGED <<kv, anc, rd, mg, written, indexed, ops, fatal>>

\* What the lookups by hash return when they find nothing.
NoTransaction == [tx |-> Nil, blockHash |-> ZeroHash, blockNumber |-> 0, index |-> 0]

\* ReadBorTransactionWithBlockHash: the bor transaction of the block the
\* caller names, at the number the lookup entry of txHash gives.
ReadBorTransactionWithBlockHash(store, txHash, blockHash, getErr) ==
    LET blockNumber == ReadBorTxLookupEntry(store, txHash, getErr)
    IN  IF blockNumber = Nil THEN NoTransaction
        ELSE LET body == ReadBody(store, blockHash, blockNumber)
             IN  IF body = Nil THEN NoTransaction
                 ELSE [tx |-> 1, blockHash |-> blockHash,
                       blockNumber |-> blockNumber, index |-> body]

\* ReadBorTransaction: the bor transaction of the canonical block at the
\* number the lookup entry of hash gives.
ReadBorTransaction(store, frz, hash, getErr) ==
    LET blockNumber == ReadBorTxLookupEntry(store, hash, getErr)
    IN  IF blockNumber = Nil THEN NoTransaction
        ELSE LET blockHash == ReadCanonicalHash(store, frz, blockNumber)
             IN  IF blockHash = ZeroHash THEN NoTransaction
                 ELSE LET body == ReadBody(store, blockHash, blockNumber)
                      IN  IF body = Nil THEN NoTransaction
                          ELSE [tx |-> 1, blockHash |-> blockHash,
                                blockNumber |-> blockNumber, index |-> body]

\* A caller looks a bor transaction up by its hash and a block hash.
LookupWithBlockHash(txHash, blockHash) ==
    /\ ~fatal /\ rd.pc = "idle"
    /\ \E getErr \in BOOLEAN :
        LET t == ReadBorTransactionWithBlockHash(kv, txHash, blockHash, getErr)
        IN  res' = [NoResult EXCEPT !.op = "ReadBorTransactionWithBlockHash",
                                    !.hash = txHash, !.ret = t.tx, !.err = getErr,
                                    !.at = <<t.blockHash, t.blockNumber, t.index>>]
    /\ UNCHANGED <<kv, anc, rd, mg, written, indexed, ops, fatal>>

\* A caller looks a bor transaction up by its hash.
Lookup(txHash) ==
    /\ ~fatal /\ rd.pc = "idle"
    /\ \E getErr \in BOOLEAN :
        LET t == ReadBorTransaction(kv, anc, txHash, getErr)
        IN  res' = [NoResult EXCEPT !.op = "ReadBorTransaction",
                                    !.hash = txHash, !.ret = t.tx, !.err = getErr,
                                    !.at = <<t.blockHash, t.blockNumber, t.index>>]
    /\ UNCHANGED <<kv, anc, rd, mg, written, indexed, ops, fatal>>

\* ---------------------------------------------------------- Tiered reader
\* Mutant: the mutable store is asked for the value, which must not be empty.
HasBorReceipt_NonEmpty(store, frz, hash, number, ancErr, hasErr) ==
    LET a == Ancient(frz, freezerHashTable, number, ancErr)
        k == Get(store, borReceiptKey(number, hash), hasErr)
    IN  IF ~a.err /\ BytesToHash(a.data) = hash THEN TRUE
        ELSE Len(k.data) > 0

\* HasBorReceipt: the ancient hash of the number is the hash, or the mutable
\* store has the receipt key.
HasBorReceipt(store, frz, hash, number, ancErr, hasErr) ==
    LET a == Ancient(frz, freezerHashTable, number, ancErr)
        k == Has(store, borReceiptKey(number, hash), hasErr)
    IN  IF ~a.err /\ BytesToHash(a.data) = hash THEN TRUE
        ELSE IF ~k.has \/ k.err THEN FALSE
        ELSE TRUE

\* A caller asks whether a block has a bor receipt.
Exists(hash, number) ==
    /\ ~fatal /\ rd.pc = "idle"
    /\ \E ancErr \in BOOLEAN, hasErr \in BOOLEAN :
        res' = [NoResult EXCEPT !.op = "HasBorReceipt", !.hash = hash, !.number = number,
                                !.ret = HasBorReceipt(kv, anc, hash, number, ancErr, hasErr),
                                !.src = IF ancErr THEN (IF hasErr THEN "both" ELSE "ancient")
                                        ELSE (IF hasErr THEN "mutable" ELSE "none"),
                                !.err = ancErr \/ hasErr]
    /\ UNCHANGED <<kv, anc, rd, mg, written, indexed, ops, fatal>>

\* Mutant: the mutable store is probed first.
FetchStart_MutableFirst(hash, number) ==
    /\ ~fatal /\ rd.pc = "idle"
    /\ rd' = [IdleReader EXCEPT !.pc = "get", !.hash = hash, !.number = number,
                                !.snap = Get(kv, borReceiptKey(number, hash), FALSE).data]
    /\ res' = NoResult
    /\ UNCHANGED <<kv, anc, mg, written, indexed, ops, fatal>>

\* ReadBorReceiptRLP is called.
FetchStart(hash, number) ==
    /\ ~fatal /\ rd.pc = "idle"
    /\ rd' = [IdleReader EXCEPT !.pc = "anc1", !.hash = hash, !.number = number,
                                !.snap = Get(kv, borReceiptKey(number, hash), FALSE).data]
    /\ res' = NoResult
    /\ UNCHANGED <<kv, anc, mg, written, indexed, ops, fatal>>

\* ReadBorReceiptRLP returns data, found by probe src.
Return(data, src, err) ==
    /\ rd' = IdleReader
    /\ res' = [NoResult EXCEPT !.op = "ReadBorReceiptRLP",
                                !.hash = rd.hash, !.number = rd.number,
                                !.ret = data, !.src = src, !.snap = rd.snap,
                                !.wr = rd.wr, !.mgr = rd.mgr, !.mig = rd.mig,
                                !.err = rd.err \/ err]

\* ReadBorReceiptRLP goes on to its next store call.
Goto(pc, data, err) ==
    /\ rd' = [rd EXCEPT !.pc = pc, !.data = data, !.err = @ \/ err]
    /\ res' = NoResult

\* Mutant: the first probe reads the hash table for the receipt.
FirstAncientData_HashTable ==
    /\ ~fatal /\ rd.pc = "anc1"
    /\ \E ancErr \in BOOLEAN :
        LET data == Ancient(anc, freezerHashTable, rd.number, ancErr).data
        IN  IF Len(data) > 0
            THEN Goto("hash1", data, ancErr)
            ELSE Goto("get", data, ancErr)
    /\ UNCHANGED <<kv, anc, mg, written, indexed, ops, fatal>>

\* First probe, the receipt table.
FirstAncientData ==
    /\ ~fatal /\ rd.pc = "anc1"
    /\ \E ancErr \in BOOLEAN :
        LET data == Ancient(anc, freezerBorReceiptTable, rd.number, ancErr).data
        IN  IF Len(data) > 0
            THEN Goto("hash1", data, ancErr)
            ELSE Goto("get", data, ancErr)
    /\ UNCHANGED <<kv, anc, mg, written, indexed, ops, fatal>>

\* Mutant: the first probe returns the ancient receipt without comparing
\* the hash.
FirstAncientHash_NoCompare ==
    /\ ~fatal /\ rd.pc = "hash1"
    /\ \E ancErr \in BOOLEAN : Return(rd.data, "ancient1", ancErr)
    /\ UNCHANGED <<kv, anc, mg, written, indexed, ops, fatal>>

\* First probe, the hash table.
FirstAncientHash ==
    /\ ~fatal /\ rd.pc = "hash1"
    /\ \E ancErr \in BOOLEAN :
        LET h == Ancient(anc, freezerHashTable, rd.number, ancErr).data
        IN  IF BytesToHash(h) = rd.hash
            THEN Return(rd.data, "ancient1", ancErr)
            ELSE Goto("get", rd.data, ancErr)
    /\ UNCHANGED <<kv, anc, mg, written, indexed, ops, fatal>>

\* The mutable store.
MutableGet ==
    /\ ~fatal /\ rd.pc = "get"
    /\ \E getErr \in BOOLEAN :
        LET data == Get(kv, borReceiptKey(rd.number, rd.hash), getErr).data
        IN  IF Len(data) > 0
            THEN Return(data, "mutable", getErr)
            ELSE Goto("anc2", data, getErr)
    /\ UNCHANGED <<kv, anc, mg, written, indexed, ops, fatal>>

\* Mutant: no second probe, the miss in the mutable store is final.
SecondAncientData_GiveUp ==
    /\ ~fatal /\ rd.pc = "anc2"
    /\ Return(<<>>, "none", FALSE)
    /\ UNCHANGED <<kv, anc, mg, written, indexed, ops, fatal>>

\* Second probe, the receipt table.
SecondAncientData ==
    /\ ~fatal /\ rd.pc = "anc2"
    /\ \E ancErr \in BOOLEAN :
        LET data == Ancient(anc, freezerBorReceiptTable, rd.number, ancErr).data
        IN  IF Len(data) > 0
            THEN Goto("hash2", data, ancErr)
            ELSE Return(<<>>, "none", ancErr)
    /\ UNCHANGED <<kv, anc, mg, written, indexed, ops, fatal>>

\* Second probe, the hash table.
SecondAncientHash ==
    /\ ~fatal /\ rd.pc = "hash2"
    /\ \E ancErr \in BOOLEAN :
        LET h == Ancient(anc, freezerHashTable, rd.number, ancErr).data
        IN  IF BytesToHash(h) = rd.hash
            THEN Return(rd.data, "ancient2", ancErr)
            ELSE Return(<<>>, "none", ancErr)
    /\ UNCHANGED <<kv, anc, mg, written, indexed, ops, fatal>>

\* ReadBorReceiptRLP run with no step of another process between its store
\* calls and no store call failing.
ReadBorReceiptRLP(store, frz, hash, number) ==
    LET a == Ancient(frz, freezerBorReceiptTable, number, FALSE).data
        h == Ancient(frz, freezerHashTable, number, FALSE).data
        m == Get(store, borReceiptKey(number, hash), FALSE).data
    IN  IF Len(a) > 0 /\ BytesToHash(h) = hash THEN a
        ELSE IF Len(m) > 0 THEN m
        ELSE IF Len(a) > 0 /\ BytesToHash(h) = hash THEN a
        ELSE <<>>

\* --------------------------------------------------------- Record decoder
\* Mutant: a sequence of more than one receipt gives its first.
ReadRawBorReceiptDecode_First(data) ==
    IF Len(data) = 0 THEN [rec |-> Nil, log |-> "none"]
    ELSE LET one == DecodeReceipt(data)
             many == DecodeReceipts(data)
         IN  IF one.ok THEN [rec |-> one.rec, log |-> "none"]
             ELSE IF ~many.ok
                  THEN [rec |-> Nil, log |-> "Invalid bor receipt array RLP"]
             ELSE IF Len(many.recs) < 1
                  THEN [rec |-> Nil, log |-> "Invalid bor receipt array RLP length"]
             ELSE [rec |-> many.recs[1], log |-> "none"]

\* Mutant: bytes that decode in neither shape give the receipt the failed
\* decode left behind, the zero value.
ReadRawBorReceiptDecode_ZeroValue(data) ==
    IF Len(data) = 0 THEN [rec |-> Nil, log |-> "none"]
    ELSE LET one == DecodeReceipt(data)
             many == DecodeReceipts(data)
         IN  IF one.ok THEN [rec |-> one.rec, log |-> "none"]
             ELSE IF ~many.ok
                  THEN [rec |-> 0, log |-> "Invalid bor receipt array RLP"]
             ELSE IF Len(many.recs) # 1
                  THEN [rec |-> Nil, log |-> "Invalid bor receipt array RLP length"]
             ELSE [rec |-> many.recs[1], log |-> "none"]

\* ReadRawBorReceipt after its ReadBorReceiptRLP: nil for no data; the
\* receipt when the data is one receipt; else the data as a sequence of
\* receipts, which must hold exactly one.  A failure is logged.
ReadRawBorReceiptDecode(data) ==
    IF Len(data) = 0 THEN [rec |-> Nil, log |-> "none"]
    ELSE LET one == DecodeReceipt(data)
             many == DecodeReceipts(data)
         IN  IF one.ok THEN [rec |-> one.rec, log |-> "none"]
             ELSE IF ~many.ok
                  THEN [rec |-> Nil, log |-> "Invalid bor receipt array RLP"]
             ELSE IF Len(many.recs) # 1
                  THEN [rec |-> Nil, log |-> "Invalid bor receipt array RLP length"]
             ELSE [rec |-> many.recs[1], log |-> "none"]

\* ReadRawBorReceipt: its ReadBorReceiptRLP has returned, the data is decoded.
ReadRawBorReceipt ==
    /\ ~fatal /\ res.op = "ReadBorReceiptRLP"
    /\ LET d == ReadRawBorReceiptDecode(res.ret)
       IN  res' = [res EXCEPT !.op = "ReadRawBorReceipt", !.data = res.ret,
                              !.ret = d.rec, !.log = d.log]
    /\ UNCHANGED <<kv, anc, rd, mg, written, indexed, ops, fatal>>

\* --------------------------------------------------------- Record enricher
\* types.DeriveFieldsForBorReceipt: the fields of the receipt's block.
DeriveFieldsForBorReceipt(borReceipt, hash, number, receipts) ==
    <<hash, number, receipts>>

\* Mutant: a missing body is logged and the receipt is derived all the same.
ReadBorReceiptEnrich_IgnoreBody(raw, store, deriveErr) ==
    LET receipts == ReadRawReceipts(store, raw.hash, raw.number)
        body == ReadBody(store, raw.hash, raw.number)
        out == [raw EXCEPT !.op = "ReadBorReceipt", !.base = raw.ret, !.ret = Nil]
    IN  IF raw.ret = Nil THEN out
        ELSE IF receipts = Nil THEN [out EXCEPT !.calls = <<1, 0, 0>>]
        ELSE IF deriveErr
             THEN [out EXCEPT !.calls = <<1, 1, 1>>,
                              !.log = "Failed to derive bor receipt fields"]
        ELSE [out EXCEPT !.calls = <<1, 1, 1>>,
                         !.log = IF body = Nil THEN "Missing body but have bor receipt"
                                 ELSE raw.log,
                         !.ret = raw.ret,
                         !.derived = DeriveFieldsForBorReceipt(
                                         raw.ret, raw.hash, raw.number, receipts)]

\* ReadBorReceipt after its ReadRawBorReceipt: nil when there is no receipt,
\* no receipts of the block, no body, or the derivation fails.  calls counts
\* the calls of ReadRawReceipts, ReadBody and DeriveFieldsForBorReceipt.
ReadBorReceiptEnrich(raw, store, deriveErr) ==
    LET receipts == ReadRawReceipts(store, raw.hash, raw.number)
        body == ReadBody(store, raw.hash, raw.number)
        out == [raw EXCEPT !.op = "ReadBorReceipt", !.base = raw.ret, !.ret = Nil]
    IN  IF raw.ret = Nil THEN out
        ELSE IF receipts = Nil THEN [out EXCEPT !.calls = <<1, 0, 0>>]
        ELSE IF body = Nil
             THEN [out EXCEPT !.calls = <<1, 1, 0>>,
                              !.log = "Missing body but have bor receipt"]
        ELSE IF deriveErr
             THEN [out EXCEPT !.calls = <<1, 1, 1>>,
                              !.log = "Failed to derive bor receipt fields"]
        ELSE [out EXCEPT !.calls = <<1, 1, 1>>,
                         !.ret = raw.ret,
                         !.derived = DeriveFieldsForBorReceipt(
                                         raw.ret, raw.hash, raw.number, receipts)]

\* ReadBorReceipt: its ReadRawBorReceipt has returned, the fields are derived.
ReadBorReceipt ==
    /\ ~fatal /\ res.op = "ReadRawBorReceipt"
    /\ \E deriveErr \in BOOLEAN :
        res' = ReadBorReceiptEnrich(res, kv, deriveErr)
    /\ UNCHANGED <<kv, anc, rd, mg, written, indexed, ops, fatal>>

\* -------------------------------------------------------------- Migration
\* The migration takes up a block that is not in the ancient store: it reads
\* the block's receipt from the mutable store (empty when it has none).
MigrateStart(hash, number) ==
    /\ ~fatal /\ ops < MaxOps /\ mg.pc = "idle"
    /\ <<freezerBorReceiptTable, number>> \notin DOMAIN anc
    /\ <<freezerHashTable, number>> \notin DOMAIN anc
    /\ mg' = [IdleMigration EXCEPT !.pc = "run", !.hash = hash, !.number = number,
                !.data = Get(kv, borReceiptKey(number, hash), FALSE).data]
    /\ ops' = ops + 1
    /\ res' = NoResult
    /\ UNCHANGED <<kv, anc, rd, written, indexed, fatal>>

\* The receipt becomes visible in the ancient store.
MigrateAppendReceipt ==
    /\ ~fatal /\ mg.pc = "run" /\ ~mg.receipt
    /\ anc' = Put(anc, <<freezerBorReceiptTable, mg.number>>, mg.data)
    /\ mg' = [mg EXCEPT !.receipt = TRUE]
    /\ rd' = NoteMigration
    /\ res' = NoResult
    /\ UNCHANGED <<kv, written, indexed, ops, fatal>>

\* The canonical hash becomes visible in the ancient store.
MigrateAppendHash ==
    /\ ~fatal /\ mg.pc = "run" /\ ~mg.canon
    /\ anc' = Put(anc, <<freezerHashTable, mg.number>>, mg.hash)
    /\ mg' = [mg EXCEPT !.canon = TRUE]
    /\ rd' = NoteMigration
    /\ res' = NoResult
    /\ UNCHANGED <<kv, written, indexed, ops, fatal>>

\* Both are visible: the migration deletes the mutable entry.
MigrateDelete ==
    /\ ~fatal /\ mg.pc = "run" /\ mg.receipt /\ mg.canon
    /\ kv' = Delete(kv, borReceiptKey(mg.number, mg.hash))
    /\ mg' = IdleMigration
    /\ rd' = NoteMigration
    /\ res' = NoResult
    /\ UNCHANGED <<anc, written, indexed, ops, fatal>>

\* ------------------------------------------------------------------ specs
\* One reader thread makes its calls one after the other; writers and the
\* migration run beside it.
Fetch ==
    \/ \E hash \in QueryHashes, number \in Numbers : FetchStart(hash, number)
    \/ FirstAncientData
    \/ FirstAncientHash
    \/ MutableGet
    \/ SecondAncientData
    \/ SecondAncientHash

\* The two tiers: receipts are written and deleted, migrated and read.
Next ==
    \/ \E hash \in BlockHashes, number \in Numbers, r \in Receipts :
           WriteBorReceipt(hash, number, r)
    \/ \E hash \in BlockHashes, number \in Numbers : DeleteBorReceipt(hash, number)
    \/ \E hash \in BlockHashes, number \in Numbers : RawPut(hash, number)
    \/ \E hash \in QueryHashes, number \in Numbers : Exists(hash, number)
    \/ Fetch
    \/ \E hash \in BlockHashes, number \in Numbers : MigrateStart(hash, number)
    \/ MigrateAppendReceipt
    \/ MigrateAppendHash
    \/ MigrateDelete

Spec == Init /\ [][Next]_vars

\* The reverse index beside the receipts of the mutable store.
NextIndex ==
    \/ \E hash \in BlockHashes, number \in Numbers, r \in Receipts :
           WriteBorReceipt(hash, number, r)
    \/ \E hash \in BlockHashes, number \in Numbers : DeleteBorReceipt(hash, number)
    \/ \E hash \in BlockHashes, number \in Numbers : WriteBorTxLookupEntry(hash, number)
    \/ \E hash \in BlockHashes, number \in Numbers : DeleteBorTxLookupEntry(hash, number)
    \/ \E txHash \in TxHashes : DeleteBorTxLookupEntryByTxHash(txHash)
    \/ \E txHash \in TxHashes : IndexGet(txHash)
    \/ Fetch

SpecIndex == Init /\ [][NextIndex]_vars

\* Bor transactions are looked up by hash while the chain stores bodies and
\* moves the canonical chain.
NextLookup ==
    \/ \E hash \in BlockHashes, number \in Numbers : WriteBorTxLookupEntry(hash, number)
    \/ \E hash \in BlockHashes, number \in Numbers : DeleteBorTxLookupEntry(hash, number)
    \/ \E hash \in BlockHashes, number \in Numbers : WriteBody(hash, number)
    \/ \E hash \in BlockHashes, number \in Numbers : WriteCanonicalHash(hash, number)
    \/ \E txHash \in TxHashes, blockHash \in BlockHashes :
           LookupWithBlockHash(txHash, blockHash)
    \/ \E txHash \in TxHashes : Lookup(txHash)

SpecLookup == Init /\ [][NextLookup]_vars

\* The block whose receipt key holds bytes of an earlier format.
LegacyBlocks == {<<HashOf(1), 257>>}

\* Receipts are read as records: fetched, decoded and enriched.
NextRecord ==
    \/ \E hash \in BlockHashes, number \in Numbers, r \in Receipts :
           WriteBorReceipt(hash, number, r)
    \/ \E b \in LegacyBlocks, bytes \in StoredBytes : LegacyPut(b[1], b[2], bytes)
    \/ \E hash \in BlockHashes, number \in Numbers : WriteBody(hash, number)
    \/ \E hash \in BlockHashes, number \in Numbers : WriteReceipts(hash, number)
    \/ Fetch
    \/ ReadRawBorReceipt
    \/ ReadBorReceipt

SpecRecord == Init /\ [][NextRecord]_vars

\* ----------------------------------------------------------------- claims
\* What the state says about the call that just returned.
Fetched == res.op = "ReadBorReceiptRLP"

\* The receipt key of the call that just returned.
ResKey == borReceiptKey(res.number, res.hash)

\* The mutable store's bytes at the receipt key (none when the key is absent).
ResMutable == Get(kv, ResKey, FALSE).data

\* The ancient store's receipt and hash items for the number of the call
\* (none when not appended).
ResAncientData == Ancient(anc, freezerBorReceiptTable, res.number, FALSE).data
ResAncientHash == Ancient(anc, freezerHashTable, res.number, FALSE)

\* The ancient store holds nothing for the number of the call.
ResNoAncient ==
    /\ <<freezerBorReceiptTable, res.number>> \notin DOMAIN anc
    /\ <<freezerHashTable, res.number>> \notin DOMAIN anc

\* The call ran with no store read failing, no write to its key and no
\* migration step on its number.
Quiet == Fetched /\ ~res.err /\ ~res.wr /\ ~res.mgr

\* C1: with nothing in the ancient store for the number, a ReadBorReceiptRLP
\* whose key is not written or deleted meanwhile (and whose store reads do not
\* fail) returns the bytes the last WriteBorReceipt stored for (hash, number),
\* and returns nothing when a DeleteBorReceipt came last.
C1_ReadReturnsWritten ==
    (Fetched /\ res.hash \in BlockHashes /\ ~res.err /\ ~res.wr /\ ResNoAncient)
        => LET w == written[<<res.hash, res.number>>]
           IN  /\ w.st = "written" => res.ret = w.bytes
               /\ w.st = "deleted" => res.ret = <<>>

C1_Witness ==
    /\ Fetched /\ res.hash \in BlockHashes /\ ~res.err /\ ~res.wr /\ ResNoAncient
    /\ written[<<res.hash, res.number>>].st = "written"
    /\ res.ret = written[<<res.hash, res.number>>].bytes
    /\ \E b \in Blocks : written[b].st = "deleted"

\* C2: when the receipt bytes B of (hash, number) are in the mutable store
\* as ReadBorReceiptRLP starts and the migration of that block with those
\* bytes makes its steps during the call (no other write to the key, no store
\* read failing), the call returns B.
C2_MigrationRace ==
    (Fetched /\ res.mig /\ ~res.wr /\ ~res.err /\ Len(res.snap) > 0)
        => res.ret = res.snap

\* The race itself: the first ancient probe and the mutable store both
\* missed, the second ancient probe found the receipt.
C2_Witness ==
    /\ Fetched /\ res.mig /\ ~res.wr /\ ~res.err /\ Len(res.snap) > 0
    /\ res.src = "ancient2"
    /\ res.ret = res.snap

\* C3: when the ancient store holds receipt bytes for the number and the
\* hash it records for the number is not the queried hash, ReadBorReceiptRLP
\* does not return from an ancient probe: it returns the mutable store's
\* bytes at the receipt key, nothing when there are none.
C3_MismatchedAncientIgnored ==
    (Quiet /\ Len(ResAncientData) > 0
           /\ ~ResAncientHash.err /\ ResAncientHash.data # res.hash)
        => /\ res.src \in {"mutable", "none"}
           /\ res.ret = ResMutable

C3_Witness ==
    /\ Quiet /\ Len(ResAncientData) > 0
    /\ ~ResAncientHash.err /\ ResAncientHash.data # res.hash
    /\ res.src = "mutable"
    /\ res.ret # ResAncientData

\* C4: when the receipt of (hash, number) is only in the ancient store, whose
\* hash for the number is the queried hash, and the mutable store has no
\* entry at the receipt key, ReadBorReceiptRLP returns the ancient bytes.
C4_AncientOnly ==
    (Quiet /\ Len(ResAncientData) > 0
           /\ ~ResAncientHash.err /\ ResAncientHash.data = res.hash
           /\ ResKey \notin DOMAIN kv)
        => res.ret = ResAncientData

C4_Witness ==
    /\ Quiet /\ Len(ResAncientData) > 0
    /\ ~ResAncientHash.err /\ ResAncientHash.data = res.hash
    /\ ResKey \notin DOMAIN kv
    /\ res.ret = ResAncientData
    /\ written[<<res.hash, res.number>>].st = "none"

\* The derived hash of every block of the model.
DerivedOf == [b \in Blocks |-> DerivedHash(b[1], b[2])]

\* What ReadBorTxLookupEntry gives for the derived hash of block b.
Entry(store, b) == ReadBorTxLookupEntry(store, DerivedOf[b], FALSE)

\* C5: after WriteBorTxLookupEntry(hash, number), ReadBorTxLookupEntry of
\* the derived hash gives the number, for every number, 0 included.
C5_RoundTrip ==
    \A b \in Blocks : indexed[b] = "put" => Entry(kv, b) = b[2]

C7_WriteCreatesEntry ==
    \A b \in Blocks :
        (written[b].st = "written" /\ indexed[b] = "none") => Entry(kv, b) = b[2]

\* C7 as amended: a lookup entry is in the store only when a
\* WriteBorTxLookupEntry was made for the block; WriteBorReceipt makes none.
C7_EntryOnlyByLookupWrite ==
    \A b \in Blocks :
        borTxLookupKey(DerivedOf[b]) \in DOMAIN kv => indexed[b] = "put"

C7_Witness ==
    \E b \in Blocks :
        /\ written[b].st = "written" /\ indexed[b] = "none"
        /\ b[2] # 0
        /\ Entry(kv, b) = Nil

\* C8: DeleteBorReceipt, and every step of ReadBorReceiptRLP, leaves what
\* ReadBorTxLookupEntry gives for every derived hash as it was.
C8_DeleteLeavesIndex ==
    [][(\/ /\ ops' # ops /\ indexed' = indexed
            /\ \E hash \in BlockHashes, number \in Numbers : DeleteBorReceipt(hash, number)
         \/ /\ rd' # rd
            /\ Fetch)
         => \A b \in Blocks : Entry(kv', b) = Entry(kv, b)]_vars

\* The receipt was deleted and then read as absent; the entry still gives
\* the number.
C8_Witness ==
    /\ Fetched /\ res.ret = <<>> /\ res.hash \in BlockHashes
    /\ written[<<res.hash, res.number>>].st = "deleted"
    /\ indexed[<<res.hash, res.number>>] = "put"
    /\ Entry(kv, <<res.hash, res.number>>) = res.number

\* C9: after DeleteBorTxLookupEntry or DeleteBorTxLookupEntryByTxHash for a
\* block, ReadBorTxLookupEntry of its derived hash gives nil; and a delete
\* that finds no entry leaves the store as it was and is not fatal.
C9_DeleteThenAbsent ==
    /\ [](\A b \in Blocks : indexed[b] \in {"deleted", "noop"} => Entry(kv, b) = Nil)
    /\ [][\A b \in Blocks :
            (indexed'[b] = "noop" /\ indexed[b] # "noop") => (kv' = kv /\ ~fatal')]_vars

\* An entry was written and deleted, and is read as nil.
C9_Witness ==
    /\ res.op = "ReadBorTxLookupEntry" /\ res.ret = Nil /\ ~res.err
    /\ \E b \in Blocks : /\ DerivedOf[b] = res.hash
                         /\ b[2] # 0
                         /\ indexed[b] = "deleted"

\* C10: DeleteBorReceipt removes the receipt key from the mutable store and
\* nothing else: every other key keeps its value, the ancient store is as it
\* was, and an absent key leaves the store as it was.  ReadBorReceiptRLP of a
\* deleted receipt that the ancient store holds under the queried hash still
\* returns the ancient bytes.
C10_DeleteOnlyMutable ==
    /\ [][\A hash \in BlockHashes, number \in Numbers :
            (ops' # ops /\ ~fatal' /\ DeleteBorReceipt(hash, number))
                => /\ anc' = anc
                   /\ kv' = Delete(kv, borReceiptKey(number, hash))
                   /\ borReceiptKey(number, hash) \notin DOMAIN kv => kv' = kv]_vars
    /\ []((Quiet /\ res.hash \in BlockHashes
                 /\ written[<<res.hash, res.number>>].st = "deleted"
                 /\ Len(ResAncientData) > 0
                 /\ ~ResAncientHash.err /\ ResAncientHash.data = res.hash)
            => res.ret = ResAncientData)

C10_Witness ==
    /\ Quiet /\ res.hash \in BlockHashes
    /\ written[<<res.hash, res.number>>].st = "deleted"
    /\ Len(ResAncientData) > 0
    /\ ~ResAncientHash.err /\ ResAncientHash.data = res.hash
    /\ res.ret = ResAncientData

\* The call that just returned decoded res.data.
Decoded == res.op = "ReadRawBorReceipt"

\* The bytes decode in neither shape, or as a sequence not of one receipt.
Undecodable(data) ==
    /\ Len(data) > 0
    /\ ~DecodeReceipt(data).ok
    /\ ~DecodeReceipts(data).ok \/ Len(DecodeReceipts(data).recs) # 1

\* C11: ReadRawBorReceipt gives the receipt r for the bytes of r in the
\* single shape; for bytes that are a sequence of receipts it gives the one
\* receipt of a sequence of one (the receipt its single-shape bytes give) and
\* nil with the length error for a sequence of none or several; for bytes of
\* neither shape it gives nil with the encoding error; and the bytes that
\* WriteBorReceipt stored decode to the receipt that was written.
C11_DecodeShapes ==
    Decoded =>
        /\ \A r \in Receipts :
              res.data = EncodeToBytes(r) => (res.ret = r /\ res.log = "none")
        /\ DecodeReceipt(res.data).ok => res.ret = DecodeReceipt(res.data).rec
        /\ \A n \in 0..MaxSeq : \A q \in [1..n -> Receipts] :
              res.data = EncodeSequence(q) =>
                  IF n = 1
                  THEN /\ res.ret = q[1] /\ res.log = "none"
                       /\ res.ret = ReadRawBorReceiptDecode(EncodeToBytes(q[1])).rec
                  ELSE /\ res.ret = Nil
                       /\ res.log = "Invalid bor receipt array RLP length"
        /\ (Len(res.data) > 0 /\ ~DecodeReceipt(res.data).ok
                              /\ ~DecodeReceipts(res.data).ok)
              => (res.ret = Nil /\ res.log = "Invalid bor receipt array RLP")
        /\ (res.hash \in BlockHashes /\ res.src = "mutable" /\ ~res.wr
              /\ written[<<res.hash, res.number>>].st = "written")
              => (res.ret # Nil
                  /\ EncodeToBytes(res.ret) = written[<<res.hash, res.number>>].bytes)

\* A sequence of one receipt, stored in the earlier format, is read as that
\* receipt.
C11_Witness ==
    /\ Decoded /\ res.src = "mutable"
    /\ res.data = EncodeSequence(<<2>>)
    /\ res.ret = 2
    /\ written[<<res.hash, res.number>>].st = "raw"

\* C12 as claimed: when the stored bytes are present and do not decode, what
\* ReadRawBorReceipt returns differs from what it returns for absent bytes
\* (nil).
C12_FailureDistinguishable ==
    (Decoded /\ Undecodable(res.data)) => res.ret # Nil

\* C12 as amended: for bytes that do not decode ReadRawBorReceipt logs the
\* error and returns nil, which is what it returns for absent bytes, where
\* it logs nothing.
C12_FailureLoggedAsNil ==
    Decoded =>
        /\ Undecodable(res.data) => (res.ret = Nil /\ res.log # "none")
        /\ Len(res.data) = 0 => (res.ret = Nil /\ res.log = "none")

C12_Witness ==
    /\ Decoded /\ res.src = "mutable" /\ ~res.err
    /\ Undecodable(res.data) /\ ~DecodeReceipts(res.data).ok
    /\ ResMutable = res.data
    /\ res.ret = Nil /\ res.log = "Invalid bor receipt array RLP"

\* The call that just returned derived the fields of res.base.
Enriched == res.op = "ReadBorReceipt"

\* C13: ReadBorReceipt returns nil when ReadRawBorReceipt gave nil, when
\* the block has no receipts, when it has no body and when the derivation
\* fails; it calls ReadRawReceipts, ReadBody and DeriveFieldsForBorReceipt at
\* most once each; and when it returns nil for one of the last three reasons
\* ReadRawBorReceipt of the same block in the same state gives the receipt.
C13_EnrichUnavailable ==
    Enriched =>
        /\ res.base = Nil => (res.ret = Nil /\ res.calls = <<0, 0, 0>>)
        /\ ReadRawReceipts(kv, res.hash, res.number) = Nil => res.ret = Nil
        /\ ReadBody(kv, res.hash, res.number) = Nil => res.ret = Nil
        /\ res.log = "Failed to derive bor receipt fields" => res.ret = Nil
        /\ \A i \in 1..3 : res.calls[i] <= 1
        /\ (res.ret = Nil /\ res.base # Nil /\ ~res.wr /\ ~res.mgr /\ ~res.err)
              => ReadRawBorReceiptDecode(
                     ReadBorReceiptRLP(kv, anc, res.hash, res.number)).rec = res.base

\* The block has a bor receipt and receipts but no body: no enriched
\* receipt, and the raw receipt is there.
C13_Witness ==
    /\ Enriched /\ res.ret = Nil /\ res.base # Nil
    /\ ~res.wr /\ ~res.mgr /\ ~res.err
    /\ ReadRawReceipts(kv, res.hash, res.number) # Nil
    /\ ReadBody(kv, res.hash, res.number) = Nil
    /\ res.calls = <<1, 1, 0>>

\* A probe of the call in flight misses: the call goes on to its next probe,
\* or returns nothing after the last.
ProbeMisses ==
    CASE rd.pc \in {"anc1", "hash1"} -> rd'.pc = "get"
      [] rd.pc = "get" -> rd'.pc = "anc2"
      [] OTHER -> rd'.pc = "idle" /\ res'.ret = <<>>

\* The first store read of the call in flight to fail fails in this step.
FirstReadError ==
    /\ rd.pc # "idle" /\ ~rd.err
    /\ IF rd'.pc = "idle" THEN res'.err ELSE rd'.err

\* C14: ReadBorReceiptRLP returns nothing exactly when the ancient store
\* has no receipt for the number under the queried hash and the mutable store
\* has no bytes at the receipt key; a store read that fails, in
\* ReadBorReceiptRLP or in ReadBorTxLookupEntry, counts as a miss of that
\* probe; and no step of either is fatal.
C14_ErrorsAreMisses ==
    /\ []((Quiet /\ mg.pc = "idle")
            => (res.ret = <<>>
                  <=> /\ ~(Len(ResAncientData) > 0 /\ ~ResAncientHash.err
                                                  /\ ResAncientHash.data = res.hash)
                      /\ Len(ResMutable) = 0))
    /\ []((res.op = "ReadBorTxLookupEntry" /\ res.err) => res.ret = Nil)
    /\ [][FirstReadError => ProbeMisses]_vars
    /\ [][(rd'.pc # rd.pc \/ res'.op # "none") => ~fatal']_vars

\* C15: an operation on the mutable store that returned has changed the
\* store: the receipt of a block last written is in the store, that of a
\* block last deleted is not, and likewise the lookup entries.  An operation
\* whose Put or Delete fails (or whose receipt does not encode) does not
\* return: the process is gone, and takes no further step.
C15_FailureIsFatal ==
    /\ [](\A b \in Blocks :
            /\ written[b].st = "written"
                  => Get(kv, borReceiptKey(b[2], b[1]), FALSE).data = written[b].bytes
            /\ written[b].st = "deleted" => borReceiptKey(b[2], b[1]) \notin DOMAIN kv
            /\ indexed[b] = "put"
                  => /\ borTxLookupKey(DerivedOf[b]) \in DOMAIN kv
                     /\ kv[borTxLookupKey(DerivedOf[b])] = BigIntBytes(b[2])
            /\ indexed[b] \in {"deleted", "noop"}
                  => borTxLookupKey(DerivedOf[b]) \notin DOMAIN kv)
    /\ [][~fatal /\ (fatal' => (kv' = kv /\ ops' = ops + 1))]_vars

\* One operation returned, the next one failed.
C15_Witness ==
    /\ fatal /\ ops = 2
    /\ \E b \in Blocks : written[b].st = "written" \/ indexed[b] = "put"

\* C20: ReadBorReceiptRLP returns the ancient store's bytes only when the
\* ancient store's hash table has an item for the number and the item is the
\* queried hash.
C20_AncientOnlyOnHashEntry ==
    (Fetched /\ res.src \in {"ancient1", "ancient2"})
        => /\ <<freezerHashTable, res.number>> \in DOMAIN anc
           /\ anc[<<freezerHashTable, res.number>>] = res.hash

\* The ancient store holds the receipt of the call's number under the
\* call's hash.
ResAncientMatch ==
    /\ Len(ResAncientData) > 0
    /\ ~ResAncientHash.err /\ ResAncientHash.data = res.hash

\* C16: ReadBorReceiptRLP probes the ancient store, the mutable store and
\* the ancient store again, in this order: when both stores hold bytes for
\* (hash, number) it returns the ancient store's, from the first probe; it
\* reads the mutable store only after the first ancient probe, and probes
\* the ancient store again only after the mutable store gave nothing (so a
\* call during which the stores do not change never returns from the second
\* ancient probe).
C16_ProbeOrder ==
    /\ []((Quiet /\ ResAncientMatch /\ Len(ResMutable) > 0)
            => (res.ret = ResAncientData /\ res.src = "ancient1"))
    /\ []((Quiet /\ res.src = "mutable") => ~ResAncientMatch)
    /\ [](Quiet => res.src # "ancient2")
    /\ [][rd'.pc # rd.pc
            => /\ rd'.pc = "anc1" => rd.pc = "idle"
               /\ rd'.pc = "hash1" => rd.pc = "anc1"
               /\ rd'.pc = "get" => rd.pc \in {"anc1", "hash1"}
               /\ rd'.pc = "anc2" => (rd.pc = "get" /\ rd'.data = <<>>)
               /\ rd'.pc = "hash2" => rd.pc = "anc2"]_vars

\* Both stores hold bytes for the block, not the same: the ancient store's
\* are returned.
C16_Witness ==
    /\ Quiet /\ ResAncientMatch /\ Len(ResMutable) > 0
    /\ ResMutable # ResAncientData
    /\ res.ret = ResAncientData

\* The block references a reader may ask for, and their derived hashes.
QueryBlocks == QueryHashes \X Numbers
QueryDerived == [c \in QueryBlocks |-> DerivedHash(c[1], c[2])]

\* No lookup key is a receipt key, and no two block references have the same
\* receipt key or the same derived hash.
KeysApart ==
    /\ \A c \in QueryBlocks, e \in QueryBlocks :
          borTxLookupKey(QueryDerived[c]) # borReceiptKey(e[2], e[1])
    /\ \A c \in QueryBlocks, e \in QueryBlocks :
          c # e => /\ borReceiptKey(c[2], c[1]) # borReceiptKey(e[2], e[1])
                   /\ QueryDerived[c] # QueryDerived[e]

\* What the three readers give for block reference c.
ReadsOf(store, frz, c) ==
    <<ReadBorReceiptRLP(store, frz, c[1], c[2]),
      HasBorReceipt(store, frz, c[1], c[2], FALSE, FALSE),
      ReadBorTxLookupEntry(store, QueryDerived[c], FALSE)>>

\* C17: a WriteBorReceipt, DeleteBorReceipt, WriteBorTxLookupEntry or
\* DeleteBorTxLookupEntry for one block leaves what ReadBorReceiptRLP,
\* HasBorReceipt and ReadBorTxLookupEntry give for every other block reference
\* and every other derived hash as it was; a ReadBorReceiptRLP whose own key
\* is not written during the call returns what it returns when run alone,
\* whatever is written to other keys meanwhile; and no lookup key is a
\* receipt key.
C17_OtherKeysUntouched ==
    /\ [][kv' # kv
            => \E b \in Blocks :
                 /\ written'[b] # written[b] \/ indexed'[b] # indexed[b]
                 /\ \A c \in QueryBlocks \ {b} :
                       ReadsOf(kv', anc', c) = ReadsOf(kv, anc, c)]_vars
    /\ []((Fetched /\ ~res.wr /\ ~res.err)
            => res.ret = ReadBorReceiptRLP(kv, anc, res.hash, res.number))
    /\ []KeysApart

\* The entry of one block is read while another block of the same number
\* was written.
C17_Witness ==
    /\ res.op = "ReadBorTxLookupEntry" /\ res.ret # Nil
    /\ \E b \in Blocks, c \in Blocks :
          /\ b # c /\ b[2] = c[2]
          /\ DerivedOf[b] = res.hash /\ indexed[b] = "put"
          /\ written[c].st = "written" /\ indexed[c] = "none"

\* C18: when no operation is in flight and HasBorReceipt(hash, number) is
\* true, ReadBorReceiptRLP(hash, number) returns bytes.
C18_ExistsImpliesFetch ==
    (Quiet /\ mg.pc = "idle"
           /\ HasBorReceipt(kv, anc, res.hash, res.number, FALSE, FALSE))
        => Len(res.ret) > 0

\* C19: a bor transaction that ReadBorTransaction or
\* ReadBorTransactionWithBlockHash returns for txHash is of a block whose
\* derived hash is txHash.
C19_LookupReturnsOwner ==
    (res.op \in {"ReadBorTransaction", "ReadBorTransactionWithBlockHash"}
       /\ res.ret # Nil)
        => res.hash = DerivedHash(res.at[1], res.at[2])

====
